---- MODULE Spec2Model ----
(***************************************************************************)
(* Model of the MIRS swath extractor of polar2grid                         *)
(* (polar2grid/mirs/mirs2swath.py): the granule reader MIRSFileReader, the *)
(* granule ensemble MIRSMultiReader and the scene assembly of Frontend;    *)
(* and of run_cviirs of the CREFL wrapper (polar2grid/crefl/               *)
(* crefl_wrapper.py).                                                      *)
(*                                                                         *)
(* Python values are modelled as follows.  An object is a record of its    *)
(* attributes, so that "the object has no attribute x" is "x is not in the *)
(* DOMAIN of the record".  A call returns a record whose field status is   *)
(* "ok" or the name of the exception that the call raises.  Time stamps    *)
(* are integers (minutes), frequencies are integers (tenths of a GHz).     *)
(* A decoded array element is carried as the position it was read from,    *)
(* <<file, variable, row, column, channel>>, so that the order and the     *)
(* number of the elements of an output stream can be observed.             *)
(***************************************************************************)
EXTENDS Integers, Sequences, FiniteSets, TLC

\* Bounds of the model.
MaxOps == 5
MaxRequest == 2
MaxFiles == 2
MaxNprocs == 2
MaxPaths == 2
MaxDirFiles == 2
MaxPixels == 2
MaxChannels == 2
MaxGranules == 2

\* ---------------------------------------------------------------- names
FT_IMG == "MIRS_IMG"
RR_VAR == "rr"
BT_88_VAR == "bt_88"
FREQ_VAR == "freq"
LAT_VAR == "latitude"
LON_VAR == "longitude"

PRODUCT_RAIN_RATE == "rain_rate"
PRODUCT_BT_88 == "btemp_88"
PRODUCT_LATITUDE == "latitude"
PRODUCT_LONGITUDE == "longitude"

\* Exceptions, named as Python names them; the spec's names are in comments.
RuntimeError == "RuntimeError"                \* LifecycleError
ValueErrorFormat == "ValueError: unknown file format"      \* FormatValidationError
ValueErrorFrequency == "ValueError: frequency does not exist" \* ChannelNotFoundError
ValueErrorAmbiguous == "ValueError: truth value of an array is ambiguous"
TypeErrorNotImplemented == "TypeError: exceptions must derive from BaseException"
TypeErrorFloatNone == "TypeError: float() argument must be a number"
AttributeError == "AttributeError"
RuntimeErrorNoFiles == "RuntimeError: No useable files provided or found"
KeyError == "KeyError"                        \* UnknownProductError
NotImplementedNprocs == "NotImplementedError: multiple processes"   \* UnsupportedConcurrencyError
NotImplementedDependencies == "NotImplementedError: dependent products" \* UnsupportedDependencyError
ShapeMismatchError == "ShapeMismatchError"    \* raised nowhere in the code

\* Python's None where a record is expected.
None == [none |-> TRUE]

\* ----------------------------------------------------------- input files
\* The global attributes the validation reads.
MirsAttrs(begin, end) ==
  [project |-> "Microwave Integrated Retrieval System", title |-> "MIRS IMG",
   data_model |-> "NETCDF4", time_coverage_start |-> begin,
   time_coverage_end |-> end]

\* The same with the file-wide fill attribute "missing_value".
MirsAttrsFill(begin, end, fill) ==
  [project |-> "Microwave Integrated Retrieval System", title |-> "MIRS IMG",
   data_model |-> "NETCDF4", time_coverage_start |-> begin,
   time_coverage_end |-> end, missing_value |-> fill]

\* The granule files of the model: what Dataset(filepath, "r") gives.
\* a.nc and b.nc are well-formed (b.nc begins earlier and ends later than
\* a.nc); c.nc has one column and 88.2 GHz first on its frequency axis; d.nc
\* declares no fill value and has no 88.2 GHz channel; y.nc is a netCDF file
\* without the global attribute project; x.nc has another title, p.nc another
\* project and m.nc another data model.  A file is the same file under "./".
Dataset(filepath) ==
  CASE filepath \in {"a.nc", "./a.nc"} ->
         [attrs |-> MirsAttrsFill(1, 2, -999), rows |-> 2, cols |-> 2,
          Freq |-> <<500, 882>>]
    [] filepath \in {"b.nc", "./b.nc"} ->
         [attrs |-> MirsAttrsFill(0, 3, -999), rows |-> 1, cols |-> 2,
          Freq |-> <<500, 882>>]
    [] filepath \in {"c.nc", "./c.nc"} ->
         [attrs |-> MirsAttrsFill(1, 2, -999), rows |-> 1, cols |-> 1,
          Freq |-> <<882, 500>>]
    [] filepath \in {"d.nc", "./d.nc"} ->
         [attrs |-> MirsAttrs(2, 4), rows |-> 1, cols |-> 2,
          Freq |-> <<500>>]
    [] filepath \in {"y.nc", "./y.nc"} ->
         [attrs |-> [title |-> "MIRS IMG", data_model |-> "NETCDF4",
                     time_coverage_start |-> 0, time_coverage_end |-> 1,
                     missing_value |-> -999],
          rows |-> 1, cols |-> 2, Freq |-> <<500, 882>>]
    [] filepath = "p.nc" ->
         [attrs |-> [MirsAttrsFill(0, 1, -999) EXCEPT !.project = "SOMETHING ELSE"],
          rows |-> 1, cols |-> 2, Freq |-> <<500, 882>>]
    [] filepath = "m.nc" ->
         [attrs |-> [MirsAttrsFill(0, 1, -999) EXCEPT !.data_model = "NETCDF3_CLASSIC"],
          rows |-> 1, cols |-> 2, Freq |-> <<500, 882>>]
    [] OTHER ->
         [attrs |-> [MirsAttrsFill(0, 1, -999) EXCEPT !.title = "SOMETHING ELSE"],
          rows |-> 1, cols |-> 2, Freq |-> <<500, 882>>]

FilePaths == {"a.nc", "b.nc", "c.nc", "d.nc", "x.nc", "y.nc", "p.nc", "m.nc"}

\* ------------------------------------------------------- MIRSFileReader
\* Constant -> (var_name, scale_attr_name, fill_attr_name, frequency);
\* a frequency of None is 0 here (both are false in "if freq:").
FILE_STRUCTURE(item) ==
  CASE item = RR_VAR -> [var_name |-> "RR", scale |-> "scale", fill |-> "None", freq |-> 0]
    [] item = BT_88_VAR -> [var_name |-> "BT", scale |-> "scale", fill |-> "None", freq |-> 882]
    [] item = FREQ_VAR -> [var_name |-> "Freq", scale |-> "None", fill |-> "None", freq |-> 0]
    [] item = LAT_VAR -> [var_name |-> "Latitude", scale |-> "None", fill |-> "None", freq |-> 0]
    [] item = LON_VAR -> [var_name |-> "Longitude", scale |-> "None", fill |-> "None", freq |-> 0]

\* Every file is taken for a MIRS IMG file: mutation of handles_file.
handles_file_always(nc_obj) == "True"

\* handles_file: "True", "False", or the AttributeError of a missing
\* descriptor, which the except clause (AssertionError only) lets through.
handles_file(nc_obj) ==
  LET a == nc_obj.attrs IN
  IF "project" \notin DOMAIN a THEN AttributeError
  ELSE IF a.project # "Microwave Integrated Retrieval System" THEN "False"
  ELSE IF "title" \notin DOMAIN a THEN AttributeError
  ELSE IF a.title # "MIRS IMG" THEN "False"
  ELSE IF "data_model" \notin DOMAIN a THEN AttributeError
  ELSE IF a.data_model # "NETCDF4" THEN "False"
  ELSE "True"

\* MIRSFileReader(filepath): the reader object, or the exception raised.
MIRSFileReader(filepath) ==
  LET nc_obj == Dataset(filepath)
      h == handles_file(nc_obj)
  IN  IF h = "False" THEN [status |-> ValueErrorFormat]
      ELSE IF h # "True" THEN [status |-> h]
      ELSE [status |-> "ok",
            reader |-> [filepath |-> filepath,
                        begin_time |-> nc_obj.attrs.time_coverage_start,
                        end_time |-> nc_obj.attrs.time_coverage_end]]

\* _compare(self, other, method): method(self.begin_time, other.start_time);
\* the AttributeError of a missing start_time becomes "raise NotImplemented",
\* which is a TypeError because NotImplemented is no exception.
compare(self, other, method) ==
  IF "start_time" \in DOMAIN other
  THEN [status |-> "ok",
        value |-> CASE method = "lt" -> self.begin_time < other.start_time
                    [] method = "le" -> self.begin_time <= other.start_time
                    [] method = "eq" -> self.begin_time = other.start_time
                    [] method = "ge" -> self.begin_time >= other.start_time
                    [] method = "gt" -> self.begin_time > other.start_time
                    [] method = "ne" -> self.begin_time # other.start_time]
  ELSE [status |-> TypeErrorNotImplemented]

\* __lt__
lt(self, other) == compare(self, other, "lt")

\* sorted(list): a stable insertion sort that asks only "<" of its elements,
\* as Python's list sort does; an exception raised by "<" ends the sort.  A
\* list of fewer than two elements is returned without any comparison.
RECURSIVE InsertSorted(_, _, _)
InsertSorted(s, x, i) ==
  \* insert x into the sorted s, looking at s[i] from the right end
  IF i = 0 THEN [status |-> "ok", value |-> <<x>> \o s]
  ELSE LET c == lt(x, s[i]) IN
       IF c.status # "ok" THEN [status |-> c.status]
       ELSE IF c.value THEN InsertSorted(s, x, i - 1)
       ELSE [status |-> "ok",
             value |-> SubSeq(s, 1, i) \o <<x>> \o SubSeq(s, i + 1, Len(s))]

RECURSIVE SortedPrefix(_, _)
SortedPrefix(s, n) ==
  IF n = 0 THEN [status |-> "ok", value |-> <<>>]
  ELSE LET r == SortedPrefix(s, n - 1) IN
       IF r.status # "ok" THEN r
       ELSE InsertSorted(r.value, s[n], Len(r.value))

sorted(s) == SortedPrefix(s, Len(s))

\* filter_by_frequency: the 0-based index of freq on the frequency axis.
\* "if freq_idx:" is the truth value of the array of matching indices: an
\* empty array is false, an array of one index is true iff the index is not
\* 0, and an array of several indices has no truth value.
filter_by_frequency(nc_obj, freq) ==
  LET idx == {i \in 1..Len(nc_obj.Freq) : nc_obj.Freq[i] = freq}
      first == CHOOSE i \in idx : \A j \in idx : i <= j
  IN  IF Cardinality(idx) > 1 THEN [status |-> ValueErrorAmbiguous]
      ELSE IF idx = {} \/ first - 1 = 0 THEN [status |-> ValueErrorFrequency]
      ELSE [status |-> "ok", value |-> first - 1]

\* get_fill_value: no variable of FILE_STRUCTURE names a fill attribute, so
\* the fill value is the file-wide "missing_value" or None; the debug call
\* evaluates float(fill_value), a TypeError for None.
get_fill_value(nc_obj, item) ==
  IF "missing_value" \in DOMAIN nc_obj.attrs
  THEN [status |-> "ok", value |-> nc_obj.attrs.missing_value]
  ELSE [status |-> TypeErrorFloatNone]

\* get_swath_data(item): the decoded (rows x cols) array of one granule, a
\* sequence of rows, or the exception raised.
get_swath_data(reader, item) ==
  LET nc_obj == Dataset(reader.filepath)
      st == FILE_STRUCTURE(item)
      chan == IF st.freq # 0 THEN filter_by_frequency(nc_obj, st.freq)
              ELSE [status |-> "ok", value |-> -1]
      fill == get_fill_value(nc_obj, item)
  IN  IF chan.status # "ok" THEN [status |-> chan.status]
      ELSE IF fill.status # "ok" THEN [status |-> fill.status]
      ELSE [status |-> "ok",
            value |-> [r \in 1..nc_obj.rows |->
                        [c \in 1..nc_obj.cols |->
                          <<reader.filepath, st.var_name, r, c, chan.value>>]]]

\* The values of get_swath_data.  The array of a variable is the sequence
\* of its pixels; a pixel of a frequency-indexed variable is the sequence of
\* its values along the frequency dimension.  A decoded element is the exact
\* quotient num / den, or NaN.
NaN == [nan |-> TRUE]
Quot(x, s) == [num |-> x, den |-> s]
EqualsNumber(q, f) == q # NaN /\ q.num = f * q.den

\* filter_by_frequency(item, arr, freq): arr[..., freq_idx].
filter_by_frequency_slice(nc_obj, arr, freq) ==
  LET f == filter_by_frequency(nc_obj, freq) IN
  IF f.status # "ok" THEN f
  ELSE [status |-> "ok", value |-> [p \in 1..Len(arr) |-> arr[p][f.value + 1]]]

\* get_scale_value(item): float(the variable's attribute "scale"), or None
\* (0 here: both are false in "if file_scale:").
get_scale_value(nc_obj, item) ==
  LET st == FILE_STRUCTURE(item) IN
  IF st.scale # "None" THEN nc_obj.variables[st.var_name].scale ELSE 0

\* "if file_fill: var_data[var_data == file_fill] = fill"
replace_fill(var_data, file_fill) ==
  IF file_fill # 0
  THEN [p \in 1..Len(var_data) |->
         IF EqualsNumber(var_data[p], file_fill) THEN NaN ELSE var_data[p]]
  ELSE var_data

\* "var_data.astype(dtype)" and "if file_scale: var_data = var_data / file_scale"
scale_data(var_data, file_scale) ==
  [p \in 1..Len(var_data) |->
    Quot(var_data[p], IF file_scale # 0 THEN file_scale ELSE 1)]

\* get_swath_data(item) on the values of the file nc_obj.
get_swath_values(nc_obj, item) ==
  LET st == FILE_STRUCTURE(item)
      arr == nc_obj.variables[st.var_name].data
      sliced == IF st.freq # 0 THEN filter_by_frequency_slice(nc_obj, arr, st.freq)
                ELSE [status |-> "ok", value |-> arr]
      fill == get_fill_value(nc_obj, item)
  IN  IF sliced.status # "ok" THEN [status |-> sliced.status]
      ELSE IF fill.status # "ok" THEN [status |-> fill.status]
      ELSE [status |-> "ok",
            value |-> replace_fill(
                        scale_data(sliced.value, get_scale_value(nc_obj, item)),
                        fill.value)]

\* ------------------------------------------------------ MIRSMultiReader
\* MIRSMultiReader(): the ensemble without files.
MIRSMultiReader == [file_readers |-> <<>>, files_finalized |-> FALSE]

\* add_file without its test of _files_finalized.
add_file_unguarded(self, fn) ==
  LET r == MIRSFileReader(fn) IN
  IF r.status # "ok" THEN [status |-> r.status, self |-> self]
  ELSE [status |-> "ok",
        self |-> [self EXCEPT !.file_readers = Append(@, r.reader)]]

\* add_file(fn)
add_file(self, fn) ==
  IF self.files_finalized THEN [status |-> RuntimeError, self |-> self]
  ELSE LET r == MIRSFileReader(fn) IN
       IF r.status # "ok" THEN [status |-> r.status, self |-> self]
       ELSE [status |-> "ok",
             self |-> [self EXCEPT !.file_readers = Append(@, r.reader)]]

\* finalize_files()
finalize_files(self) ==
  LET s == sorted(self.file_readers) IN
  IF s.status # "ok" THEN [status |-> s.status, self |-> self]
  ELSE [status |-> "ok",
        self |-> [file_readers |-> s.value, files_finalized |-> TRUE]]

\* ---------------------------------------------------------- FileAppender
\* numpy's tofile: the elements of the array in row-major order.
RECURSIVE tofile(_)
tofile(data) ==
  IF data = <<>> THEN <<>> ELSE Head(data) \o tofile(Tail(data))

\* FileAppender.shape after append(data): the rows add up, the other
\* extents are those of the array appended last.  No extent is compared.
FileAppender_append(shape, data) ==
  <<shape[1] + Len(data), IF data = <<>> THEN 0 ELSE Len(data[1])>>

\* ------------------------------------------------------ product catalog
\* MIRSProductDefiniton(name, data_kind, file_type, file_key, ...)
MIRSProductDefiniton(name, data_kind, file_type, file_key, dependencies, is_geoproduct) ==
  [name |-> name, data_kind |-> data_kind, file_type |-> file_type,
   file_key |-> file_key, dependencies |-> dependencies,
   is_geoproduct |-> is_geoproduct]

\* ProductList.add_product: self[pd.name] = pd
add_product(catalog, pd) ==
  [n \in DOMAIN catalog \cup {pd.name} |-> IF n = pd.name THEN pd ELSE catalog[n]]

\* PRODUCTS as the module builds it at import.
PRODUCTS_at_import ==
  add_product(add_product(add_product(add_product(<<>>,
    MIRSProductDefiniton(PRODUCT_RAIN_RATE, "rain_rate", FT_IMG, RR_VAR, <<>>, FALSE)),
    MIRSProductDefiniton(PRODUCT_BT_88, "btemp", FT_IMG, BT_88_VAR, <<>>, FALSE)),
    MIRSProductDefiniton(PRODUCT_LATITUDE, "latitude", FT_IMG, LAT_VAR, <<>>, TRUE)),
    MIRSProductDefiniton(PRODUCT_LONGITUDE, "longitude", FT_IMG, LON_VAR, <<>>, TRUE))

\* A product that depends on another one, as a caller of add_product may
\* register it; the module itself registers none.
DerivedProduct ==
  MIRSProductDefiniton("derived", "rain_rate", FT_IMG, RR_VAR, <<PRODUCT_RAIN_RATE>>, FALSE)

\* available_product_names
available_product_names(catalog) ==
  {k \in DOMAIN catalog :
     catalog[k].dependencies = <<>> /\ ~catalog[k].is_geoproduct}

\* The order of "for geo_product in [PRODUCT_LATITUDE, PRODUCT_LONGITUDE]".
GeoLoop == <<PRODUCT_LATITUDE, PRODUCT_LONGITUDE>>

\* filename = product_name + ".dat"
FbfName(product_name) == product_name \o ".dat"

\* The names a caller may ask for: the registered ones and an unknown one.
RequestNames == DOMAIN PRODUCTS_at_import \cup {DerivedProduct.name, "bogus"}

Range(s) == {s[i] : i \in DOMAIN s}

\* The lists that list(set(...)) may give for a set: its elements in any order.
Perms(S) ==
  {s \in [1..Cardinality(S) -> S] : \A i, j \in DOMAIN s : i # j => s[i] # s[j]}

\* The sequences over S of length 0..n.
SeqsUpTo(S, n) == UNION {[1..k -> S] : k \in 0..n}

\* create_scene without its test of nprocs.
nprocs_unchecked(np) == FALSE

\* "if nprocs != 1: raise NotImplementedError"
nprocs_unsupported(np) == np # 1

\* The dependency loop without its test.
has_dependencies_unchecked(product_def) == FALSE

\* "if PRODUCTS[product_name].dependencies:"
has_dependencies(product_def) == product_def.dependencies # <<>>

\* The loop looks the names up and does not test their dependencies:
\* mutation of figure_out_dependencies.
figure_out_dependencies_unchecked(catalog, prods, i) ==
  IF \E k \in 1..Len(prods) : prods[k] \notin DOMAIN catalog
  THEN [status |-> KeyError]
  ELSE [status |-> "ok", raw_products |-> prods]

\* The loop passes the names that are not in the catalog: mutation of
\* figure_out_dependencies.
figure_out_dependencies_lenient(catalog, prods, i) ==
  LET known == SelectSeq(prods, LAMBDA n : n \in DOMAIN catalog) IN
  IF \E k \in 1..Len(known) : catalog[known[k]].dependencies # <<>>
  THEN [status |-> NotImplementedDependencies]
  ELSE [status |-> "ok", raw_products |-> known]

\* The loop "for product_name in products" that fills raw_products.
RECURSIVE figure_out_dependencies(_, _, _)
figure_out_dependencies(catalog, prods, i) ==
  IF i > Len(prods) THEN [status |-> "ok", raw_products |-> prods]
  ELSE IF prods[i] \notin DOMAIN catalog THEN [status |-> KeyError]
  ELSE IF has_dependencies(catalog[prods[i]]) THEN [status |-> NotImplementedDependencies]
  ELSE figure_out_dependencies(catalog, prods, i + 1)

\* add_files(filenames)
RECURSIVE add_files(_, _)
add_files(self, filenames) ==
  IF filenames = <<>> THEN [status |-> "ok", self |-> self]
  ELSE LET r == add_file(self, Head(filenames)) IN
       IF r.status # "ok" THEN r ELSE add_files(r.self, Tail(filenames))

\* MIRSMultiReader(filenames=filenames)
MIRSMultiReader_filenames(filenames) ==
  IF filenames = <<>> THEN [status |-> "ok", self |-> MIRSMultiReader]
  ELSE LET a == add_files(MIRSMultiReader, filenames) IN
       IF a.status # "ok" THEN a ELSE finalize_files(a.self)

\* The geo loop storing every geo-product in the scene.
geo_always(geo_product, raw) == TRUE

\* The geo loop storing no geo-product in the scene.
geo_never(geo_product, raw) == FALSE

\* "if geo_product in raw_products:"
geo_requested(geo_product, raw) == geo_product \in Range(raw)

\* The companions without the reset for latitude and longitude.
companions_no_reset(product_name, created) ==
  [latitude |-> IF PRODUCT_LATITUDE \in DOMAIN created
                THEN created[PRODUCT_LATITUDE] ELSE None,
   longitude |-> IF PRODUCT_LONGITUDE \in DOMAIN created
                 THEN created[PRODUCT_LONGITUDE] ELSE None]

\* The companions of a new SwathProduct: products_created.get(...), reset to
\* None for the latitude and the longitude product themselves.
companions(product_name, created) ==
  LET lat == IF PRODUCT_LATITUDE \in DOMAIN created
             THEN created[PRODUCT_LATITUDE] ELSE None
      lon == IF PRODUCT_LONGITUDE \in DOMAIN created
             THEN created[PRODUCT_LONGITUDE] ELSE None
  IN  IF product_name \in {PRODUCT_LATITUDE, PRODUCT_LONGITUDE}
      THEN [latitude |-> None, longitude |-> None]
      ELSE [latitude |-> lat, longitude |-> lon]

\* meta.SwathProduct(...) as _create_raw_swath_object fills it.
SwathProduct(product_name, product_def, readers, shape, created) ==
  [product_name |-> product_name,
   data_kind |-> product_def.data_kind,
   begin_time |-> readers[1].begin_time,
   end_time |-> readers[Len(readers)].end_time,
   longitude |-> companions(product_name, created).longitude,
   latitude |-> companions(product_name, created).latitude,
   swath_rows |-> shape[1], swath_cols |-> shape[2],
   swath_data |-> FbfName(product_name),
   source_filenames |-> [i \in 1..Len(readers) |-> readers[i].filepath]]

\* The assignment is lost: mutation of Put.
Put_nothing(d, k, v) == d

\* d[k] = v
Put(d, k, v) == [x \in DOMAIN d \cup {k} |-> IF x = k THEN v ELSE d[x]]

\* ------------------------------------------------------------ the state
VARIABLES
  file_readers,     \* MIRSMultiReader.file_readers
  files_finalized,  \* MIRSMultiReader._files_finalized
  disk,             \* the content of each flat binary file, <<>> if absent
  open_streams,     \* the flat binary files that are open for writing
  pc,               \* "idle", or "agg" inside write_var_to_flat_binary
  agg,              \* the frame of write_var_to_flat_binary
  result,           \* the outcome of the last call on the ensemble
  opened,           \* the flat binary files opened so far, in order
  nops,             \* the calls a caller issued on the ensemble so far
  PRODUCTS,         \* the product catalog
  recognized_files, \* Frontend.recognized_files[FT_IMG]
  nprocs,           \* create_scene's argument
  request,          \* create_scene's argument products
  products,         \* create_scene: list(set(products))
  raw_products,     \* create_scene: raw_products
  scene_file_readers, \* create_scene: the keys of the dict file_readers
  products_created, \* create_scene: products_created
  scene,            \* create_scene: scene
  scene_pc,         \* the position of create_scene
  loop_idx,         \* the index in the loop create_scene is in
  creating,         \* the product _create_raw_swath_object is called for
  scene_result,     \* the outcome of create_scene
  search_paths,     \* Frontend.__init__'s argument
  listing,          \* os.listdir(".")
  path_idx,         \* find_all_files: the index of p in search_paths
  child_idx,        \* find_all_files: the index of fn in the listing
  discover_pc,      \* the position of Frontend.__init__
  discover_result,  \* the outcome of Frontend.__init__
  decode_call,      \* the arguments of a call of get_swath_data
  decode_result,    \* its outcome
  compare_call,     \* the operands of a comparison of a reader
  compare_result,   \* its outcome
  cviirs_call,      \* the arguments of a call of run_cviirs
  files,            \* the files of the working directory of run_cviirs
  cviirs,           \* the frame of run_cviirs
  subprocesses,     \* the programs run for the granule, in order
  cviirs_result     \* the outcome of run_cviirs

ensemble_vars ==
  <<file_readers, files_finalized, disk, open_streams, pc, agg, result,
    opened, nops>>

scene_vars ==
  <<PRODUCTS, recognized_files, nprocs, request, products, raw_products,
    scene_file_readers, products_created, scene, scene_pc, loop_idx,
    creating, scene_result>>

discover_vars ==
  <<search_paths, listing, path_idx, child_idx, discover_pc, discover_result>>

cviirs_vars == <<cviirs_call, files, cviirs, subprocesses, cviirs_result>>

aux_vars ==
  <<discover_vars, decode_call, decode_result, compare_call, compare_result,
    cviirs_vars>>

vars == <<ensemble_vars, scene_vars, aux_vars>>

\* The items a caller writes to flat binary files, each with the file name
\* that _create_raw_swath_object gives it.
FbfTargets ==
  {[item |-> PRODUCTS_at_import[p].file_key, filename |-> FbfName(p)] :
     p \in DOMAIN PRODUCTS_at_import}

FbfNames == {FbfName(p) : p \in DOMAIN PRODUCTS_at_import \cup {DerivedProduct.name}}

NoFrame == [item |-> "None", filename |-> "None", idx |-> 0, shape |-> <<0, 0>>]

\* The MIRSMultiReader object of the state.
ensemble == [file_readers |-> file_readers, files_finalized |-> files_finalized]

EnsembleInit ==
  /\ file_readers = MIRSMultiReader.file_readers
  /\ files_finalized = MIRSMultiReader.files_finalized
  /\ disk = [n \in FbfNames |-> <<>>]
  /\ open_streams = {}
  /\ pc = "idle"
  /\ agg = NoFrame
  /\ result = [op |-> "None", status |-> "ok"]
  /\ opened = <<>>
  /\ nops = 0

\* No create_scene call: the values its variables have before one.
NoCall ==
  /\ nprocs = 1
  /\ request = None
  /\ products = <<>>
  /\ raw_products = <<>>
  /\ scene_file_readers = {}
  /\ products_created = <<>>
  /\ scene = <<>>
  /\ loop_idx = 0
  /\ creating = "None"
  /\ scene_result = [status |-> "None"]

\* No Frontend is being constructed.
NoDiscovery ==
  /\ search_paths = <<>>
  /\ listing = <<>>
  /\ path_idx = 0
  /\ child_idx = 0
  /\ discover_pc = "None"
  /\ discover_result = [status |-> "None"]

\* No get_swath_data call and no comparison is looked at on its own.
NoDecode == decode_call = None /\ decode_result = None
NoCompare == compare_call = None /\ compare_result = None

\* run_cviirs is not called.
NoCviirs ==
  /\ cviirs_call = None
  /\ files = {}
  /\ cviirs = None
  /\ subprocesses = <<>>
  /\ cviirs_result = None

\* ------------------------------------------------- calls on the ensemble
\* A caller calls add_file(fn).
AddFile(fn) ==
  /\ pc = "idle"
  /\ nops < MaxOps
  /\ LET r == add_file(ensemble, fn) IN
     /\ file_readers' = r.self.file_readers
     /\ files_finalized' = r.self.files_finalized
     /\ result' = [op |-> "add_file", status |-> r.status]
  /\ nops' = nops + 1
  /\ UNCHANGED <<disk, open_streams, pc, agg, opened>>
  /\ UNCHANGED <<scene_vars, aux_vars>>

\* A caller calls finalize_files().
Finalize ==
  /\ pc = "idle"
  /\ nops < MaxOps
  /\ LET r == finalize_files(ensemble) IN
     /\ file_readers' = r.self.file_readers
     /\ files_finalized' = r.self.files_finalized
     /\ result' = [op |-> "finalize_files", status |-> r.status]
  /\ nops' = nops + 1
  /\ UNCHANGED <<disk, open_streams, pc, agg, opened>>
  /\ UNCHANGED <<scene_vars, aux_vars>>

\* write_var_to_flat_binary(item, filename), entry: open(filename, "w")
\* truncates the file and FileAppender starts with the shape (0, 0).
write_var_open(item, filename) ==
  /\ disk' = [disk EXCEPT ![filename] = <<>>]
  /\ open_streams' = open_streams \cup {filename}
  /\ agg' = [item |-> item, filename |-> filename, idx |-> 1, shape |-> <<0, 0>>]
  /\ pc' = "agg"
  /\ opened' = Append(opened, filename)
  /\ result' = [op |-> "write_var_to_flat_binary", status |-> "running",
                item |-> item, filename |-> filename]

\* The loop visiting the readers last to first.
loop_readers_reversed(readers) ==
  [i \in 1..Len(readers) |-> readers[Len(readers) + 1 - i]]

\* The readers the loop of write_var_to_flat_binary visits, in its order.
loop_readers(readers) == readers

\* The iteration with a plain open() in place of the with block: an
\* exception leaves the file open.
write_var_iteration_leak ==
  LET rs == loop_readers(file_readers)
      d == get_swath_data(rs[agg.idx], agg.item)
  IN  IF d.status = "ok"
      THEN /\ disk' = [disk EXCEPT ![agg.filename] = @ \o tofile(d.value)]
           /\ agg' = [agg EXCEPT !.idx = @ + 1,
                                 !.shape = FileAppender_append(@, d.value)]
           /\ UNCHANGED <<open_streams, pc, result>>
      ELSE /\ pc' = "idle"
           /\ result' = [op |-> "write_var_to_flat_binary", status |-> d.status,
                         item |-> agg.item, filename |-> agg.filename]
           /\ agg' = NoFrame
           /\ UNCHANGED <<disk, open_streams>>

\* The iteration with a handler that empties the file when a decode raises:
\* mutation of write_var_iteration.
write_var_iteration_cleanup ==
  LET rs == loop_readers(file_readers)
      d == get_swath_data(rs[agg.idx], agg.item)
  IN  IF d.status = "ok"
      THEN /\ disk' = [disk EXCEPT ![agg.filename] = @ \o tofile(d.value)]
           /\ agg' = [agg EXCEPT !.idx = @ + 1,
                                 !.shape = FileAppender_append(@, d.value)]
           /\ UNCHANGED <<open_streams, pc, result>>
      ELSE /\ open_streams' = open_streams \ {agg.filename}
           /\ pc' = "idle"
           /\ result' = [op |-> "write_var_to_flat_binary", status |-> d.status,
                         item |-> agg.item, filename |-> agg.filename]
           /\ agg' = NoFrame
           /\ disk' = [disk EXCEPT ![agg.filename] = <<>>]

\* One iteration of "for file_reader in self.file_readers": decode, append.
\* An exception leaves the with block, which closes the file.
write_var_iteration ==
  LET rs == loop_readers(file_readers)
      d == get_swath_data(rs[agg.idx], agg.item)
  IN  IF d.status = "ok"
      THEN /\ disk' = [disk EXCEPT ![agg.filename] = @ \o tofile(d.value)]
           /\ agg' = [agg EXCEPT !.idx = @ + 1,
                                 !.shape = FileAppender_append(@, d.value)]
           /\ UNCHANGED <<open_streams, pc, result>>
      ELSE /\ open_streams' = open_streams \ {agg.filename}
           /\ pc' = "idle"
           /\ result' = [op |-> "write_var_to_flat_binary", status |-> d.status,
                         item |-> agg.item, filename |-> agg.filename]
           /\ agg' = NoFrame
           /\ UNCHANGED disk

\* The end of the loop: the with block closes the file, the shape is returned.
write_var_return ==
  /\ open_streams' = open_streams \ {agg.filename}
  /\ pc' = "idle"
  /\ result' = [op |-> "write_var_to_flat_binary", status |-> "ok",
                value |-> agg.shape, item |-> agg.item, filename |-> agg.filename]
  /\ agg' = NoFrame
  /\ UNCHANGED disk

\* A caller calls write_var_to_flat_binary(item, filename).
AggregateVariable(t) ==
  /\ pc = "idle"
  /\ scene_pc = "None"
  /\ nops < MaxOps
  /\ write_var_open(t.item, t.filename)
  /\ nops' = nops + 1
  /\ UNCHANGED <<file_readers, files_finalized>>
  /\ UNCHANGED <<scene_vars, aux_vars>>

\* write_var_to_flat_binary goes through one iteration of its loop.
AggregateStep ==
  /\ pc = "agg"
  /\ agg.idx <= Len(loop_readers(file_readers))
  /\ write_var_iteration
  /\ UNCHANGED <<file_readers, files_finalized, opened, nops>>
  /\ UNCHANGED <<scene_vars, aux_vars>>

\* write_var_to_flat_binary returns.
AggregateReturn ==
  /\ pc = "agg"
  /\ agg.idx > Len(loop_readers(file_readers))
  /\ write_var_return
  /\ UNCHANGED <<file_readers, files_finalized, opened, nops>>
  /\ UNCHANGED <<scene_vars, aux_vars>>

\* A caller holds an empty ensemble and no Frontend.
Init ==
  /\ EnsembleInit
  /\ NoCall
  /\ NoDiscovery
  /\ NoDecode
  /\ NoCompare
  /\ NoCviirs
  /\ PRODUCTS = PRODUCTS_at_import
  /\ recognized_files = <<>>
  /\ scene_pc = "None"

Next ==
  \/ \E fn \in FilePaths : AddFile(fn)
  \/ Finalize
  \/ \E t \in FbfTargets : AggregateVariable(t)
  \/ AggregateStep
  \/ AggregateReturn

Spec == Init /\ [][Next]_vars

\* ------------------------------------------------------------ Frontend
\* create_scene raises: nothing it built is returned.
SceneRaise(status) ==
  /\ scene_pc' = "done"
  /\ scene_result' = [status |-> status]
  /\ creating' = "None"

\* A caller registers a product with dependencies: PRODUCTS.add_product(...).
RegisterProduct ==
  /\ scene_pc = "ready"
  /\ DerivedProduct.name \notin DOMAIN PRODUCTS
  /\ PRODUCTS' = add_product(PRODUCTS, DerivedProduct)
  /\ UNCHANGED ensemble_vars
  /\ UNCHANGED <<aux_vars, recognized_files, nprocs, request, products, raw_products,
                 scene_file_readers, products_created, scene, scene_pc,
                 loop_idx, creating, scene_result>>

\* create_scene(products=req, nprocs=np) up to "Load files": the test of
\* nprocs, list(set(products)) and the loop over the dependencies.  req is
\* None or a list of names, [list |-> <<...>>].
CreateScene(req, np) ==
  /\ scene_pc = "ready"
  /\ nprocs' = np
  /\ request' = req
  /\ IF nprocs_unsupported(np)
     THEN /\ SceneRaise(NotImplementedNprocs)
          /\ UNCHANGED <<products, raw_products, scene>>
     ELSE \E order \in Perms(IF req = None THEN available_product_names(PRODUCTS)
                             ELSE Range(req.list)) :
            LET d == figure_out_dependencies(PRODUCTS, order, 1) IN
            /\ products' = order
            /\ scene' = <<>>
            /\ IF d.status # "ok"
               THEN SceneRaise(d.status) /\ UNCHANGED raw_products
               ELSE /\ raw_products' = d.raw_products
                    /\ scene_pc' = "load"
                    /\ UNCHANGED <<scene_result, creating>>
  /\ UNCHANGED ensemble_vars
  /\ UNCHANGED <<aux_vars, PRODUCTS, recognized_files, scene_file_readers,
                 products_created, loop_idx>>

\* "Load files": the MIRSMultiReader of the recognized files is built and
\* kept if it has readers.
LoadFiles ==
  /\ scene_pc = "load"
  /\ LET r == MIRSMultiReader_filenames(recognized_files) IN
     /\ file_readers' = r.self.file_readers
     /\ files_finalized' = r.self.files_finalized
     /\ IF r.status # "ok"
        THEN /\ SceneRaise(r.status)
             /\ UNCHANGED <<scene_file_readers, products_created, loop_idx>>
        ELSE /\ scene_file_readers' =
                  IF Len(r.self.file_readers) # 0 THEN {FT_IMG} ELSE {}
             /\ products_created' = <<>>
             /\ scene_pc' = "geo"
             /\ loop_idx' = 1
             /\ UNCHANGED <<scene_result, creating>>
  /\ UNCHANGED <<disk, open_streams, pc, agg, result, opened, nops>>
  /\ UNCHANGED <<aux_vars, PRODUCTS, recognized_files, nprocs, request, products,
                 raw_products, scene>>

\* _create_raw_swath_object(product_name, ...) up to its call of
\* write_var_to_flat_binary.
create_raw_swath_call(product_name) ==
  LET product_def == PRODUCTS[product_name] IN
  IF product_def.file_type \notin scene_file_readers
  THEN /\ SceneRaise(KeyError)
       /\ UNCHANGED ensemble_vars
  ELSE /\ write_var_open(product_def.file_key, FbfName(product_name))
       /\ creating' = product_name
       /\ UNCHANGED <<file_readers, files_finalized, nops, scene_pc, scene_result>>

\* The geo loop calls _create_raw_swath_object(geo_product, ...).
GeoCall ==
  /\ scene_pc = "geo"
  /\ pc = "idle"
  /\ creating = "None"
  /\ create_raw_swath_call(GeoLoop[loop_idx])
  /\ UNCHANGED <<aux_vars, PRODUCTS, recognized_files, nprocs, request, products,
                 raw_products, scene_file_readers, products_created, scene,
                 loop_idx>>

\* write_var_to_flat_binary has ended: an exception leaves create_scene;
\* otherwise _create_raw_swath_object returns the SwathProduct and the loop
\* that called it stores it.
SwathReturn ==
  /\ scene_pc \in {"geo", "raw"}
  /\ pc = "idle"
  /\ creating # "None"
  /\ IF result.status # "ok"
     THEN /\ SceneRaise(result.status)
          /\ UNCHANGED <<products_created, scene, loop_idx>>
     ELSE LET one_swath == SwathProduct(creating, PRODUCTS[creating], file_readers,
                                        result.value, products_created)
          IN  /\ products_created' = Put(products_created, creating, one_swath)
              /\ scene' = IF scene_pc = "raw" \/ geo_requested(creating, raw_products)
                          THEN Put(scene, creating, one_swath) ELSE scene
              /\ creating' = "None"
              /\ IF scene_pc = "geo" /\ loop_idx = Len(GeoLoop)
                 THEN scene_pc' = "raw" /\ loop_idx' = 1
                 ELSE scene_pc' = scene_pc /\ loop_idx' = loop_idx + 1
              /\ UNCHANGED scene_result
  /\ UNCHANGED ensemble_vars
  /\ UNCHANGED <<aux_vars, PRODUCTS, recognized_files, nprocs, request, products,
                 raw_products, scene_file_readers>>

\* No product is taken for created: mutation of already_created.
already_created_never(raw_product, created) == FALSE

\* "raw_product in products_created" (the raw loop tests its negation)
already_created(raw_product, created) == raw_product \in DOMAIN created

\* The raw loop passes a product that is in products_created.
RawSkip ==
  /\ scene_pc = "raw"
  /\ creating = "None"
  /\ loop_idx <= Len(raw_products)
  /\ already_created(raw_products[loop_idx], products_created)
  /\ loop_idx' = loop_idx + 1
  /\ UNCHANGED ensemble_vars
  /\ UNCHANGED <<aux_vars, PRODUCTS, recognized_files, nprocs, request, products,
                 raw_products, scene_file_readers, products_created, scene,
                 scene_pc, creating, scene_result>>

\* The raw loop calls _create_raw_swath_object(raw_product, ...).
RawCall ==
  /\ scene_pc = "raw"
  /\ pc = "idle"
  /\ creating = "None"
  /\ loop_idx <= Len(raw_products)
  /\ ~already_created(raw_products[loop_idx], products_created)
  /\ create_raw_swath_call(raw_products[loop_idx])
  /\ UNCHANGED <<aux_vars, PRODUCTS, recognized_files, nprocs, request, products,
                 raw_products, scene_file_readers, products_created, scene,
                 loop_idx>>

\* "return scene"
SceneReturn ==
  /\ scene_pc = "raw"
  /\ creating = "None"
  /\ loop_idx > Len(raw_products)
  /\ scene_pc' = "done"
  /\ scene_result' = [status |-> "ok"]
  /\ UNCHANGED ensemble_vars
  /\ UNCHANGED <<aux_vars, PRODUCTS, recognized_files, nprocs, request, products,
                 raw_products, scene_file_readers, products_created, scene,
                 loop_idx, creating>>

\* The values of create_scene's argument products.
Requests == {[list |-> l] : l \in SeqsUpTo(RequestNames, MaxRequest)} \cup {None}

\* The valid files that Frontend.__init__ may have recognized.
RecognizableFiles == {fp \in FilePaths : handles_file(Dataset(fp)) = "True"}

\* A Frontend has been constructed over one or more recognized files.
SceneInit ==
  /\ EnsembleInit
  /\ NoCall
  /\ NoDiscovery
  /\ NoDecode
  /\ NoCompare
  /\ NoCviirs
  /\ PRODUCTS = PRODUCTS_at_import
  /\ recognized_files \in SeqsUpTo(RecognizableFiles, MaxFiles) \ {<<>>}
  /\ scene_pc = "ready"

SceneNext ==
  \/ RegisterProduct
  \/ \E req \in Requests : \E np \in 0..MaxNprocs : CreateScene(req, np)
  \/ LoadFiles
  \/ GeoCall
  \/ AggregateStep
  \/ AggregateReturn
  \/ SwathReturn
  \/ RawSkip
  \/ RawCall
  \/ SceneReturn

SceneSpec == SceneInit /\ [][SceneNext]_vars

\* ------------------------------------------- properties of the ensemble
\* MIRSMultiReader.begin_time and end_time (of a non-empty ensemble).
MultiReader_begin_time == file_readers[1].begin_time
MultiReader_end_time == file_readers[Len(file_readers)].end_time

\* The readers are in non-decreasing begin_time order.
TimeAscending(readers) ==
  \A i, j \in 1..Len(readers) : i <= j => readers[i].begin_time <= readers[j].begin_time

\* A call of write_var_to_flat_binary has ended (returned or raised).
AggregateEnded ==
  pc = "idle" /\ result.op = "write_var_to_flat_binary" /\ result.status # "running"

\* The arrays get_swath_data gives for the readers, one after the other.
RECURSIVE DecodedStream(_, _)
DecodedStream(readers, item) ==
  IF readers = <<>> THEN <<>>
  ELSE tofile(get_swath_data(Head(readers), item).value)
         \o DecodedStream(Tail(readers), item)

RECURSIVE SumRows(_)
SumRows(readers) ==
  IF readers = <<>> THEN 0
  ELSE Dataset(Head(readers).filepath).rows + SumRows(Tail(readers))

GranuleCols(reader) == Dataset(reader.filepath).cols

\* C1: an AddFile issued on a finalized ensemble fails with LifecycleError
\* (RuntimeError) and leaves the reader sequence and the state unchanged.
C1_AddFileAfterFinalizeFails ==
  [][(files_finalized /\ nops' = nops + 1 /\ result'.op = "add_file")
       => (/\ result'.status = RuntimeError
           /\ file_readers' = file_readers
           /\ files_finalized')]_vars

C1_Witness ==
  /\ files_finalized
  /\ Len(file_readers) = 1
  /\ result.op = "add_file"
  /\ result.status = RuntimeError

\* C2: Finalize of an ensemble of n >= 1 readers succeeds, leaves the readers
\* in non-decreasing begin_time order, and end_time is the end_time of the
\* last reader in that order.
C2_FinalizeSucceedsSorted ==
  (result.op = "finalize_files" /\ Len(file_readers) >= 1)
    => /\ result.status = "ok"
       /\ files_finalized
       /\ TimeAscending(file_readers)
       /\ MultiReader_end_time = file_readers[Len(file_readers)].end_time

C5_NoAggregationWhileOpen ==
  (pc = "agg" /\ agg.idx > 1) => files_finalized

\* C6: when AggregateVariable has ended, by returning or by an exception of
\* a decode, no output stream is open.
C6_StreamClosedOnExit ==
  pc = "idle" => open_streams = {}

C6_Witness ==
  /\ AggregateEnded
  /\ result.status = TypeErrorFloatNone
  /\ Len(file_readers) >= 2
  /\ disk # [n \in FbfNames |-> <<>>]
  /\ open_streams = {}

\* ----------------------------------------------- properties of the scene
\* The names of the caller's request list (none for products=None).
RequestedNames == IF request = None THEN {} ELSE Range(request.list)

\* create_scene has built no ensemble, opened no granule and no stream.
NothingDone ==
  /\ file_readers = <<>>
  /\ scene_file_readers = {}
  /\ opened = <<>>
  /\ open_streams = {}
  /\ disk = [n \in FbfNames |-> <<>>]
  /\ products_created = <<>>
  /\ scene = <<>>

\* The request names a registered product that has dependencies.
RequestsDependent ==
  \E n \in RequestedNames :
    n \in DOMAIN PRODUCTS /\ PRODUCTS[n].dependencies # <<>>

SceneReturned == scene_pc = "done" /\ scene_result.status = "ok"

GeoNames == {PRODUCT_LATITUDE, PRODUCT_LONGITUDE}

\* C7: a CreateScene with a concurrency other than 1 has failed with
\* UnsupportedConcurrencyError (NotImplementedError) with no ensemble built,
\* no granule opened and no stream written, whatever was requested.
C7_ConcurrencyRejectedFirst ==
  (scene_pc # "ready" /\ nprocs # 1)
    => /\ scene_pc = "done"
       /\ scene_result.status = NotImplementedNprocs
       /\ NothingDone

C7_Witness ==
  /\ scene_pc = "done"
  /\ nprocs = 2
  /\ scene_result.status = NotImplementedNprocs
  /\ RequestedNames = {PRODUCT_RAIN_RATE, "bogus"}

\* C8 as claimed: a CreateScene (concurrency 1) whose request contains a
\* product with dependencies fails with UnsupportedDependencyError whatever
\* else is requested.
C8_DependencyErrorWhateverElse ==
  (scene_pc = "done" /\ nprocs = 1 /\ RequestsDependent)
    => scene_result.status = NotImplementedDependencies

\* C8 as amended: a CreateScene (concurrency 1) whose request contains a
\* product with dependencies fails before anything is built: with
\* UnsupportedDependencyError when every requested name is registered, and
\* otherwise with that error or the UnknownProductError (KeyError) of an
\* unregistered name, whichever name the loop meets first.
C8_DependencyRejected ==
  (scene_pc # "ready" /\ nprocs = 1 /\ RequestsDependent)
    => /\ scene_pc = "done"
       /\ scene_result.status \in {NotImplementedDependencies, KeyError}
       /\ RequestedNames \subseteq DOMAIN PRODUCTS
            => scene_result.status = NotImplementedDependencies
       /\ NothingDone

C8_Witness ==
  /\ scene_pc = "done"
  /\ nprocs = 1
  /\ RequestedNames = {PRODUCT_RAIN_RATE, DerivedProduct.name}
  /\ Len(recognized_files) = 1
  /\ scene_result.status = NotImplementedDependencies

\* C9: in a CreateScene that returned, latitude and longitude have both been
\* written and built, and each is a key of the scene iff the request list
\* contains it.
C9_GeoInSceneIffRequested ==
  SceneReturned
    => \A g \in GeoNames :
         /\ g \in DOMAIN products_created
         /\ \E i \in DOMAIN opened : opened[i] = FbfName(g)
         /\ disk[FbfName(g)] # <<>>
         /\ g \in DOMAIN scene <=> g \in RequestedNames

C9_Witness ==
  /\ SceneReturned
  /\ request = [list |-> <<PRODUCT_RAIN_RATE, PRODUCT_LATITUDE>>]
  /\ DOMAIN scene = {PRODUCT_RAIN_RATE, PRODUCT_LATITUDE}
  /\ PRODUCT_LONGITUDE \in DOMAIN products_created

\* C10: in a scene that CreateScene returned, every product other than
\* latitude and longitude carries as companions the latitude and longitude
\* SwathProducts built in the call, and those two carry no companions.
C10_CompanionsAttached ==
  SceneReturned
    => /\ \A p \in DOMAIN scene \ GeoNames :
            /\ scene[p].latitude = products_created[PRODUCT_LATITUDE]
            /\ scene[p].longitude = products_created[PRODUCT_LONGITUDE]
            /\ scene[p].latitude # None
            /\ scene[p].longitude # None
            /\ scene[p].latitude.product_name = PRODUCT_LATITUDE
            /\ scene[p].longitude.product_name = PRODUCT_LONGITUDE
       /\ \A g \in GeoNames :
            /\ products_created[g].latitude = None
            /\ products_created[g].longitude = None
            /\ g \in DOMAIN scene => scene[g] = products_created[g]

C10_Witness ==
  /\ SceneReturned
  /\ DOMAIN scene = {PRODUCT_BT_88, PRODUCT_LONGITUDE}
  /\ scene[PRODUCT_BT_88].longitude = scene[PRODUCT_LONGITUDE]

\* C11: at no point of a CreateScene does the scene hold a product other than
\* latitude and longitude while a requested geo-product is not in it.
C11_GeoInsertedFirst ==
  (scene_pc # "ready" /\ DOMAIN scene \ GeoNames # {})
    => \A g \in GeoNames : g \in RequestedNames => g \in DOMAIN scene

C11_Witness ==
  /\ scene_pc = "raw"
  /\ creating = "None"
  /\ RequestedNames = {PRODUCT_BT_88, PRODUCT_LONGITUDE}
  /\ DOMAIN scene = {PRODUCT_BT_88, PRODUCT_LONGITUDE}

\* ------------------------------------------------- Frontend.__init__
\* The file system of the model: one directory, ".", whose children are
\* listing; the files, under their names and under "./"; "nowhere" is no
\* path that exists.
DirChildren == {"a.nc", "b.nc", "x.nc", "y.nc", "notes.txt"}
PathArgs == {".", "a.nc", "x.nc", "y.nc", "notes.txt", "nowhere"}

isdir(p) == p = "."
isfile(p) == p \in DirChildren
join(p, fn) == p \o "/" \o fn

\* filepath.endswith(".nc")
endswith_nc(filepath) ==
  \E stem \in {"a", "b", "c", "d", "x", "y"} :
    filepath \in {stem \o ".nc", join(".", stem \o ".nc")}

\* get_file_type(filepath): the file kind, "None", or the exception that
\* handles_file lets through.
get_file_type(filepath) ==
  IF ~endswith_nc(filepath) THEN [status |-> "ok", file_kind |-> "None"]
  ELSE LET h == handles_file(Dataset(filepath)) IN
       IF h = "True" THEN [status |-> "ok", file_kind |-> FT_IMG]
       ELSE IF h = "False" THEN [status |-> "ok", file_kind |-> "None"]
       ELSE [status |-> h]

\* What the construction of a Frontend leaves alone.
DiscoverFrame ==
  UNCHANGED <<ensemble_vars, PRODUCTS, nprocs, request, products, raw_products,
              scene_file_readers, products_created, scene, scene_pc, loop_idx,
              creating, scene_result, decode_call, decode_result,
              compare_call, compare_result, cviirs_vars>>

\* Frontend.__init__ raises.
DiscoverRaise(status) ==
  /\ discover_pc' = "done"
  /\ discover_result' = [status |-> status]

\* Frontend(search_paths): the default of search_paths and the empty dict.
Discover ==
  /\ discover_pc = "ready"
  /\ search_paths' = IF search_paths = <<>> THEN <<".">> ELSE search_paths
  /\ recognized_files' = <<>>
  /\ path_idx' = 1
  /\ child_idx' = 1
  /\ discover_pc' = "scan"
  /\ UNCHANGED <<listing, discover_result>>
  /\ DiscoverFrame

\* find_all_files yields (file_type, fp) and __init__ appends fp, or
\* find_all_files goes on, or get_file_type raises.
Classify(fp) ==
  LET t == get_file_type(fp) IN
  IF t.status # "ok"
  THEN /\ DiscoverRaise(t.status)
       /\ UNCHANGED <<recognized_files, path_idx, child_idx>>
  ELSE /\ recognized_files' = IF t.file_kind # "None"
                              THEN Append(recognized_files, fp)
                              ELSE recognized_files
       /\ UNCHANGED <<discover_pc, discover_result>>

\* The next child of a directory of search_paths.
DiscoverChild ==
  /\ discover_pc = "scan"
  /\ path_idx <= Len(search_paths)
  /\ isdir(search_paths[path_idx])
  /\ child_idx <= Len(listing)
  /\ Classify(join(search_paths[path_idx], listing[child_idx]))
  /\ IF discover_pc' = "scan"
     THEN child_idx' = child_idx + 1 /\ UNCHANGED path_idx
     ELSE TRUE
  /\ UNCHANGED <<search_paths, listing>>
  /\ DiscoverFrame

\* The children of a directory are exhausted.
DiscoverDirEnd ==
  /\ discover_pc = "scan"
  /\ path_idx <= Len(search_paths)
  /\ isdir(search_paths[path_idx])
  /\ child_idx > Len(listing)
  /\ path_idx' = path_idx + 1
  /\ child_idx' = 1
  /\ UNCHANGED <<search_paths, listing, recognized_files, discover_pc,
                 discover_result>>
  /\ DiscoverFrame

\* A file of search_paths.
DiscoverFile ==
  /\ discover_pc = "scan"
  /\ path_idx <= Len(search_paths)
  /\ ~isdir(search_paths[path_idx])
  /\ isfile(search_paths[path_idx])
  /\ Classify(search_paths[path_idx])
  /\ IF discover_pc' = "scan"
     THEN path_idx' = path_idx + 1 /\ UNCHANGED child_idx
     ELSE TRUE
  /\ UNCHANGED <<search_paths, listing>>
  /\ DiscoverFrame

\* A path of search_paths that does not exist.
DiscoverMissing ==
  /\ discover_pc = "scan"
  /\ path_idx <= Len(search_paths)
  /\ ~isdir(search_paths[path_idx])
  /\ ~isfile(search_paths[path_idx])
  /\ path_idx' = path_idx + 1
  /\ UNCHANGED <<search_paths, listing, recognized_files, child_idx,
                 discover_pc, discover_result>>
  /\ DiscoverFrame

\* "if not self.recognized_files: raise RuntimeError"; else __init__ returns.
DiscoverFinish ==
  /\ discover_pc = "scan"
  /\ path_idx > Len(search_paths)
  /\ IF recognized_files = <<>>
     THEN DiscoverRaise(RuntimeErrorNoFiles)
     ELSE discover_pc' = "done" /\ discover_result' = [status |-> "ok"]
  /\ UNCHANGED <<search_paths, listing, recognized_files, path_idx, child_idx>>
  /\ DiscoverFrame

\* The sequences of n or fewer distinct elements of S.
DistinctSeqsUpTo(S, n) ==
  {s \in SeqsUpTo(S, n) : \A i, j \in 1..Len(s) : s[i] = s[j] => i = j}

\* A caller is about to construct a Frontend.
DiscoverInit ==
  /\ EnsembleInit
  /\ NoCall
  /\ NoDecode
  /\ NoCompare
  /\ NoCviirs
  /\ PRODUCTS = PRODUCTS_at_import
  /\ recognized_files = <<>>
  /\ scene_pc = "None"
  /\ search_paths \in SeqsUpTo(PathArgs, MaxPaths)
  /\ listing \in DistinctSeqsUpTo(DirChildren, MaxDirFiles)
  /\ path_idx = 0
  /\ child_idx = 0
  /\ discover_pc = "ready"
  /\ discover_result = [status |-> "None"]

DiscoverNext ==
  \/ Discover
  \/ DiscoverChild
  \/ DiscoverDirEnd
  \/ DiscoverFile
  \/ DiscoverMissing
  \/ DiscoverFinish

DiscoverSpec == DiscoverInit /\ [][DiscoverNext]_vars

\* ----------------------------------------------- properties of discovery
\* The candidate files of a path, and of the first n paths, in the order
\* find_all_files meets them.
CandidatesOf(p) ==
  IF isdir(p) THEN [i \in 1..Len(listing) |-> join(p, listing[i])]
  ELSE IF isfile(p) THEN <<p>>
  ELSE <<>>

RECURSIVE Candidates(_)
Candidates(n) ==
  IF n = 0 THEN <<>> ELSE Candidates(n - 1) \o CandidatesOf(search_paths[n])

\* The file passes the format validation: it is a netCDF file by its name
\* and its three descriptors are there and have the expected values.
ValidFile(fp) == endswith_nc(fp) /\ handles_file(Dataset(fp)) = "True"

\* C12: when Frontend.__init__ has ended, it has not raised because of a
\* candidate that fails the validation (it returned, or it raised because no
\* candidate is valid), and the recognized files are exactly the valid
\* candidates.
C12_InvalidFilesSkipped ==
  discover_pc = "done" =>
    /\ discover_result.status \in {"ok", RuntimeErrorNoFiles}
    /\ recognized_files = SelectSeq(Candidates(Len(search_paths)), ValidFile)
    /\ discover_result.status = "ok" <=> recognized_files # <<>>

\* ------------------------------------------- get_swath_data on its own
\* The raw values of a variable, the file-wide fill values and the scales
\* that the files of the model carry, and the frequencies of their axes.
RawValues(item) == IF item = BT_88_VAR THEN {0, -999} ELSE {0, 4, -999, -1998}
FillValues == {0, -999}
ScaleValues(item) == IF FILE_STRUCTURE(item).scale # "None" THEN {1, 2} ELSE {1}
Frequencies == {500, 882, 1650}
DecodeItems == {RR_VAR, BT_88_VAR, LAT_VAR}

\* The sequences of 1..n elements of S.
Arrays(S, n) == SeqsUpTo(S, n) \ {<<>>}

\* The frequency axes of the files: distinct entries; a variable that is
\* not frequency-indexed is read from files of one axis.
FreqAxes(item) ==
  IF FILE_STRUCTURE(item).freq # 0
  THEN DistinctSeqsUpTo(Frequencies, MaxChannels)
  ELSE {<<500, 882>>}

\* The arrays of the variable of item in a file of the axis fr.
RawArrays(item, fr) ==
  IF FILE_STRUCTURE(item).freq # 0
  THEN Arrays([1..Len(fr) -> RawValues(item)], MaxPixels)
  ELSE Arrays(RawValues(item), MaxPixels)

\* The files that a call of get_swath_data(item) reads: global attributes
\* with or without missing_value, a frequency axis, and the variable of item
\* with its attribute scale.
DecodeFiles(item) ==
  UNION {
    {[attrs |-> a, Freq |-> fr,
      variables |-> [v \in {FILE_STRUCTURE(item).var_name} |->
                       [scale |-> s, data |-> d]]] :
       a \in {MirsAttrs(0, 1)} \cup {MirsAttrsFill(0, 1, f) : f \in FillValues},
       s \in ScaleValues(item),
       d \in RawArrays(item, fr)} : fr \in FreqAxes(item)}

\* What a call on a reader's values leaves alone.
DecodeFrame ==
  /\ UNCHANGED <<ensemble_vars, scene_vars, discover_vars, decode_call,
                 compare_call, compare_result, cviirs_vars>>

\* reader.filter_by_frequency(item, reader[item][:], freq)
FilterByFrequency ==
  /\ decode_result = None
  /\ FILE_STRUCTURE(decode_call.item).freq # 0
  /\ LET nc_obj == decode_call.nc_obj
         st == FILE_STRUCTURE(decode_call.item)
         r == filter_by_frequency_slice(nc_obj, nc_obj.variables[st.var_name].data,
                                        st.freq)
     IN  decode_result' = [op |-> "filter_by_frequency", status |-> r.status,
                           value |-> IF r.status = "ok" THEN r.value ELSE <<>>]
  /\ DecodeFrame

\* reader.get_swath_data(item)
DecodeVariable ==
  /\ decode_result = None
  /\ LET r == get_swath_values(decode_call.nc_obj, decode_call.item) IN
     decode_result' = [op |-> "get_swath_data", status |-> r.status,
                       value |-> IF r.status = "ok" THEN r.value ELSE <<>>]
  /\ DecodeFrame

\* A caller holds a reader of one of the files and is about to decode item.
DecodeInit ==
  /\ EnsembleInit
  /\ NoCall
  /\ NoDiscovery
  /\ NoCompare
  /\ NoCviirs
  /\ PRODUCTS = PRODUCTS_at_import
  /\ recognized_files = <<>>
  /\ scene_pc = "None"
  /\ \E item \in DecodeItems : \E nc_obj \in DecodeFiles(item) :
       decode_call = [item |-> item, nc_obj |-> nc_obj]
  /\ decode_result = None

DecodeNext ==
  \/ FilterByFrequency
  \/ DecodeVariable

DecodeSpec == DecodeInit /\ [][DecodeNext]_vars

\* -------------------------------------------- properties of the decoding
\* The call's file, item, layout entry, raw array and 0-based axis indices
\* whose entry is the frequency of the item.
CallFile == decode_call.nc_obj
CallItem == decode_call.item
CallStructure == FILE_STRUCTURE(CallItem)
CallArray == CallFile.variables[CallStructure.var_name].data
CallScale == CallFile.variables[CallStructure.var_name].scale
AxisMatches == {i \in 0..Len(CallFile.Freq) - 1 : CallFile.Freq[i + 1] = CallStructure.freq}
Filtered == decode_result # None /\ decode_result.op = "filter_by_frequency"
Decoded == decode_result # None /\ decode_result.op = "get_swath_data"

\* C13: filter_by_frequency fails with the ValueError "does not exist" when
\* no axis entry is the frequency, and returns the slice at index i when the
\* entry at index i is, for every i from 0 on.
C13_FrequencySlice ==
  Filtered =>
    /\ AxisMatches = {} => decode_result.status = ValueErrorFrequency
    /\ \A i \in AxisMatches :
         /\ decode_result.status = "ok"
         /\ decode_result.value = [p \in 1..Len(CallArray) |-> CallArray[p][i + 1]]

\* The raw array that the scale and the fill value are applied to: the
\* array of the variable, or its slice at the axis index of the frequency.
SlicedRaw ==
  IF CallStructure.freq = 0 THEN CallArray
  ELSE [p \in 1..Len(CallArray) |->
         CallArray[p][(CHOOSE i \in AxisMatches : TRUE) + 1]]

\* The call is not one that fails to find the channel of the item.
ChannelFound == Decoded /\ decode_result.status # ValueErrorFrequency

FillDeclared == "missing_value" \in DOMAIN CallFile.attrs
DeclaredFill == CallFile.attrs.missing_value
ScaleDeclared == CallStructure.scale # "None"

\* No element is the fill sentinel, before or after the division.
NoFillElement ==
  FillDeclared =>
    \A p \in 1..Len(SlicedRaw) :
      SlicedRaw[p] # DeclaredFill /\ SlicedRaw[p] # DeclaredFill * CallScale

\* C14: get_swath_data of a variable with a scale s, none of whose elements
\* is a fill sentinel (the file may declare none), returns the elements
\* divided by s.
C14_ScaledWithoutFill ==
  (ChannelFound /\ ScaleDeclared /\ NoFillElement) =>
    /\ decode_result.status = "ok"
    /\ decode_result.value =
         [p \in 1..Len(SlicedRaw) |-> Quot(SlicedRaw[p], CallScale)]

\* C15: get_swath_data on a file that declares a fill sentinel, 0 included,
\* returns NaN for the elements that equal the sentinel after the division
\* and the divided element for the others.
C15_FillReplaced ==
  (ChannelFound /\ FillDeclared) =>
    /\ decode_result.status = "ok"
    /\ decode_result.value =
         [p \in 1..Len(SlicedRaw) |->
           LET q == Quot(SlicedRaw[p], IF ScaleDeclared THEN CallScale ELSE 1)
           IN  IF EqualsNumber(q, DeclaredFill) THEN NaN ELSE q]

\* ----------------------------------------- properties of the ensemble (2)
\* The file has the three descriptors and one of them is not the expected
\* constant.
DescriptorMismatch(fn) ==
  LET a == Dataset(fn).attrs IN
  /\ {"project", "title", "data_model"} \subseteq DOMAIN a
  /\ \/ a.project # "Microwave Integrated Retrieval System"
     \/ a.title # "MIRS IMG"
     \/ a.data_model # "NETCDF4"

Readers == {MIRSFileReader(fp).reader : fp \in RecognizableFiles}
Comparands ==
  Readers \cup {[number |-> 5]} \cup {[start_time |-> t] : t \in 0..2}
Methods == {"lt", "le", "eq", "ge", "gt", "ne"}

\* self < other, self <= other, ...: __lt__, __le__, ... call _compare.
Compare ==
  /\ compare_result = None
  /\ compare_result' =
       compare(compare_call.self, compare_call.other, compare_call.method)
  /\ UNCHANGED <<ensemble_vars, scene_vars, discover_vars, decode_call,
                 decode_result, compare_call, cviirs_vars>>

\* A caller holds a reader and a value to compare it with.
CompareInit ==
  /\ EnsembleInit
  /\ NoCall
  /\ NoDiscovery
  /\ NoDecode
  /\ NoCviirs
  /\ PRODUCTS = PRODUCTS_at_import
  /\ recognized_files = <<>>
  /\ scene_pc = "None"
  /\ compare_call \in [self : Readers, other : Comparands, method : Methods]
  /\ compare_result = None

CompareNext == Compare

CompareSpec == CompareInit /\ [][CompareNext]_vars

\* The comparison method applied to two time stamps.
Apply(method, s, o) ==
  CASE method = "lt" -> s < o
    [] method = "le" -> s <= o
    [] method = "eq" -> s = o
    [] method = "ge" -> s >= o
    [] method = "gt" -> s > o
    [] method = "ne" -> s # o

\* C17: a comparison of a reader with a reader returns the comparison of the
\* two begin_time values; a comparison with a value that has no begin_time
\* raises and returns no boolean.
C17_ComparesBeginTimes ==
  compare_result # None =>
    IF "begin_time" \in DOMAIN compare_call.other
    THEN /\ compare_result.status = "ok"
         /\ compare_result.value = Apply(compare_call.method,
                                         compare_call.self.begin_time,
                                         compare_call.other.begin_time)
    ELSE compare_result.status # "ok"

\* -------------------------------------------- properties of the scene (2)
\* The deduplicated names that the call asks for: the names of the list, or
\* the available product names when no list is given.
AskedNames ==
  IF request = None THEN available_product_names(PRODUCTS)
  ELSE Range(request.list)

\* C18: a create_scene call that has ended either raised, and returned no
\* scene, or returned a scene whose keys are exactly the names asked for.
C18_NoPartialScene ==
  scene_pc = "done" =>
    \/ scene_result.status \notin {"ok", "None"}
    \/ scene_result.status = "ok" /\ DOMAIN scene = AskedNames

C18_Witness ==
  /\ SceneReturned
  /\ request # None
  /\ Len(request.list) = 2
  /\ DOMAIN scene = {PRODUCT_BT_88}

RequestsUnknown == \E n \in RequestedNames : n \notin DOMAIN PRODUCTS

\* C20 as claimed: a CreateScene whose request contains a name that is not
\* registered fails with UnknownProductError (KeyError) before any stream is
\* opened.
C20_UnknownNameKeyError ==
  (scene_pc = "done" /\ RequestsUnknown)
    => scene_result.status = KeyError /\ NothingDone

\* C20 as amended: a CreateScene (concurrency 1) whose request contains a
\* name that is not registered fails before anything is built or opened:
\* with KeyError when no requested name has dependencies, and otherwise with
\* KeyError or UnsupportedDependencyError, whichever name the loop meets
\* first.
C20_UnknownNameRejected ==
  (scene_pc # "ready" /\ nprocs = 1 /\ RequestsUnknown)
    => /\ scene_pc = "done"
       /\ scene_result.status \in {KeyError, NotImplementedDependencies}
       /\ ~RequestsDependent => scene_result.status = KeyError
       /\ NothingDone

C20_Witness ==
  /\ scene_pc = "done"
  /\ nprocs = 1
  /\ RequestedNames = {PRODUCT_RAIN_RATE, "bogus"}
  /\ Len(recognized_files) = 1
  /\ scene_result.status = KeyError

TimesAggregated(product_name) ==
  Cardinality({i \in DOMAIN opened : opened[i] = FbfName(product_name)})

\* C22: in a create_scene call no product is written to its file more than
\* once, whatever names the request repeats, and in a call that returned
\* latitude and longitude have each been written exactly once, requested or
\* not.
C22_AggregatedAtMostOnce ==
  /\ \A n \in DOMAIN PRODUCTS : TimesAggregated(n) <= 1
  /\ \A n \in DOMAIN products_created : TimesAggregated(n) = 1
  /\ SceneReturned => \A g \in GeoNames : TimesAggregated(g) = 1

C22_Witness ==
  /\ SceneReturned
  /\ request # None
  /\ request.list = <<PRODUCT_LATITUDE, PRODUCT_LATITUDE>>
  /\ opened = <<FbfName(PRODUCT_LATITUDE), FbfName(PRODUCT_LONGITUDE)>>
  /\ DOMAIN scene = {PRODUCT_LATITUDE}

\* C23: create_scene has tested nprocs and the dependencies of every
\* requested product before it builds an ensemble or opens a stream: a call
\* rejected for either has built and written nothing, and whenever something
\* has been built or opened, nprocs is 1 and every product of the request is
\* registered and has no dependencies.
C23_ValidationBeforeIO ==
  /\ scene_result.status \in {NotImplementedNprocs, NotImplementedDependencies}
       => NothingDone
  /\ ~NothingDone
       => /\ nprocs = 1
          /\ raw_products = products
          /\ \A i \in DOMAIN products :
               /\ products[i] \in DOMAIN PRODUCTS
               /\ PRODUCTS[products[i]].dependencies = <<>>

C23_Witness ==
  /\ scene_pc = "done"
  /\ scene_result.status = NotImplementedNprocs
  /\ RequestsDependent
  /\ Len(recognized_files) = 2
  /\ NothingDone

\* ------------------------------------------ crefl_wrapper.py: run_cviirs
\* Executable names and the exceptions of the wrapper.
H5SDS_TRANSFER_RENAME_NAME == "h5SDS_transfer_rename"
CVIIRS_NAME == "cviirs"
RuntimeErrorNoOutput == "RuntimeError: couldn't find HDF4 output file"
ValueErrorFailed == "ValueError: the program failed"
ValueErrorNotFound == "ValueError: the program was not found in PATH"
ValueErrorNoResolution == "ValueError: Must either specify output_500m or output_1km"
TypeErrorNoneSubscript == "TypeError: 'NoneType' object has no attribute '__getitem__'"

svm_temp_file == "NPP_VMAE_L1.hdf"
svi_temp_file == "NPP_VIAE_L1.hdf"

\* The band arguments of run_cviirs in the order of m_files and i_files,
\* with their variables and band numbers.
MArgs == <<"m05_files", "m07_files", "m03_files", "m04_files", "m08_files",
           "m10_files", "m11_files">>
IArgs == <<"i01_files", "i02_files", "i03_files">>
m_vars == <<"Reflectance_Mod_M5", "Reflectance_Mod_M7", "Reflectance_Mod_M3",
            "Reflectance_Mod_M4", "Reflectance_Mod_M8", "Reflectance_Mod_M10",
            "Reflectance_Mod_M11">>
i_vars == <<"Reflectance_Img_I1", "Reflectance_Img_I2", "Reflectance_Img_I3">>
m_bands == <<"1", "2", "3", "4", "5", "6", "7">>
i_bands == <<"8", "9", "10">>

\* The six transfers of the geolocation file: input and output variable.
GeoTransfers ==
  <<[input_variable |-> "Latitude", output_variable |-> "Latitude"],
    [input_variable |-> "Longitude", output_variable |-> "Longitude"],
    [input_variable |-> "SatelliteAzimuthAngle", output_variable |-> "SenAziAng_Mod"],
    [input_variable |-> "SatelliteZenithAngle", output_variable |-> "SenZenAng_Mod"],
    [input_variable |-> "SolarZenithAngle", output_variable |-> "SolZenAng_Mod"],
    [input_variable |-> "SolarAzimuthAngle", output_variable |-> "SolAziAng_Mod"]>>

\* The geolocation files of the model and
\* "_".join(os.path.basename(geo_file).split("_")[1:5]) of each.
GeoFiles ==
  {"GITCO_npp_d20120225_t1805407_e1807049_b01708_c1.h5",
   "GITCO_npp_d20120225_t1807061_e1808303_b01708_c1.h5"}

output_suffix(geo_file) ==
  CASE geo_file = "GITCO_npp_d20120225_t1805407_e1807049_b01708_c1.h5" ->
         "npp_d20120225_t1805407_e1807049"
    [] geo_file = "GITCO_npp_d20120225_t1807061_e1808303_b01708_c1.h5" ->
         "npp_d20120225_t1807061_e1808303"

m_output_filename(geo_file) == "CREFLM_" \o output_suffix(geo_file) \o ".hdf"
i_output_filename(geo_file) == "CREFLI_" \o output_suffix(geo_file) \o ".hdf"

\* The band file of an argument for the granule of geo_file.
BandFile(arg, geo_file) == arg \o ":" \o output_suffix(geo_file)

\* What a run of a program does: it ends well and has written its output
\* file, ends well without an output file, fails with or without leaving
\* an output file, or cannot be started.
Outcomes == {"ok", "no_output", "failed", "failed_partial", "not_found"}

\* check_output(args) and the test of os.path.exists(output_filename), with
\* the except clauses: the exception, and the files afterwards.
run_program(fs, output_filename, outcome) ==
  CASE outcome = "ok" -> [status |-> "ok", files |-> fs \cup {output_filename}]
    [] outcome = "no_output" ->
         [status |-> IF output_filename \in fs THEN "ok" ELSE RuntimeErrorNoOutput,
          files |-> fs]
    [] outcome = "failed" -> [status |-> ValueErrorFailed, files |-> fs]
    [] outcome = "failed_partial" ->
         [status |-> ValueErrorFailed, files |-> fs \cup {output_filename}]
    [] outcome = "not_found" -> [status |-> ValueErrorNotFound, files |-> fs]

\* run_hdf5_rename(input_filename, output_filename, input_variable, output_variable)
run_hdf5_rename(fs, output_filename, outcome) ==
  run_program(fs, output_filename, outcome)

\* _run_cviirs(output_filename, input_filenames, bands, output_500m, output_1km)
run_cviirs_once(fs, output_filename, output_500m, output_1km, outcome) ==
  IF ~output_500m /\ ~output_1km
  THEN [status |-> ValueErrorNoResolution, files |-> fs]
  ELSE run_program(fs, output_filename, outcome)

\* The except clause of run_cviirs: the unfinished output files are removed.
except_remove(fs, m_out, i_out, keep_intermediate) ==
  IF keep_intermediate THEN fs ELSE fs \ {m_out, i_out}

\* The temporary files are left: mutation of finally_remove.
finally_keep(fs, keep_intermediate) == fs

\* The finally clause of run_cviirs: the temporary files are removed.
finally_remove(fs, keep_intermediate) ==
  IF keep_intermediate THEN fs ELSE fs \ {svm_temp_file, svi_temp_file}

\* The test that guards the transfer of a band: "if m_files:" and
\* "if i_files:" test the list of all the band arguments, which is not empty.
band_guard(all_files, file_list) == all_files # <<>>

\* ",".join(bands)
RECURSIVE JoinComma(_)
JoinComma(bands) ==
  IF bands = <<>> THEN ""
  ELSE IF Len(bands) = 1 THEN bands[1]
  ELSE bands[1] \o "," \o JoinComma(Tail(bands))

\* The argument list that _run_cviirs builds.
cviirs_args(output_filename, input_filenames, bands, output_500m, output_1km) ==
  <<CVIIRS_NAME>>
    \o (IF bands # <<>> THEN <<"--bands=" \o JoinComma(bands)>> ELSE <<>>)
    \o (IF output_500m THEN <<"--500m">> ELSE <<>>)
    \o (IF output_1km THEN <<"--1km">> ELSE <<>>)
    \o <<"--overwrite", "--verbose", "--of=" \o output_filename>>
    \o input_filenames

\* The argument list that run_hdf5_rename builds.
rename_args(input_filename, output_filename, input_variable, output_variable) ==
  <<H5SDS_TRANSFER_RENAME_NAME, input_filename, output_filename,
    input_variable, output_variable>>

\* What run_cviirs leaves alone.
CviirsFrame ==
  UNCHANGED <<ensemble_vars, scene_vars, discover_vars, decode_call,
              decode_result, compare_call, compare_result, cviirs_call>>

\* The geolocation file of the granule in progress and keep_intermediate.
geo_file == cviirs_call.geo_files[cviirs.idx]
keep_intermediate == cviirs_call.keep_intermediate

\* An exception in the try block: the except clause removes the output
\* files and re-raises, the finally clause removes the temporary files.
CviirsRaise(status, fs) ==
  /\ files' = finally_remove(
                except_remove(fs, m_output_filename(geo_file),
                              i_output_filename(geo_file), keep_intermediate),
                keep_intermediate)
  /\ cviirs' = [cviirs EXCEPT !.pc = "done"]
  /\ cviirs_result' = [status |-> status]

\* A run_hdf5_rename call of the try block, after which the frame is next.
Transfer(input_filename, output_filename, tr, outcome, next) ==
  LET r == run_hdf5_rename(files, output_filename, outcome) IN
  /\ subprocesses' = Append(subprocesses,
                            rename_args(input_filename, output_filename,
                                        tr.input_variable, tr.output_variable))
  /\ IF r.status = "ok"
     THEN files' = r.files /\ cviirs' = next /\ UNCHANGED cviirs_result
     ELSE CviirsRaise(r.status, r.files)

\* The transfer of one band of the loop over izip(files, vars, bands), or
\* the TypeError of file_list[idx] for a file_list of None.
BandStep(all_files, step_var, band, temp_file, outcome) ==
  LET file_list == all_files[cviirs.step]
      next == [cviirs EXCEPT !.step = @ + 1] IN
  IF band_guard(all_files, file_list)
  THEN IF file_list = None
       THEN CviirsRaise(TypeErrorNoneSubscript, files) /\ UNCHANGED subprocesses
       ELSE Transfer(file_list.list[cviirs.idx], temp_file,
                     [input_variable |-> "Reflectance", output_variable |-> step_var],
                     outcome, [next EXCEPT !.bands = Append(@, band)])
  ELSE cviirs' = next /\ UNCHANGED <<files, subprocesses, cviirs_result>>

\* run_cviirs(geo_files, ...) is called.
RunCviirs ==
  /\ cviirs = None
  /\ cviirs' = [pc |-> "for", idx |-> 1, step |-> 0, bands |-> <<>>,
                output_filenames |-> <<>>]
  /\ UNCHANGED <<files, subprocesses, cviirs_result>>
  /\ CviirsFrame

\* "for idx, geo_file in enumerate(geo_files)": the next granule.
GranuleStart ==
  /\ cviirs # None
  /\ cviirs.pc = "for"
  /\ cviirs.idx <= Len(cviirs_call.geo_files)
  /\ cviirs' = [cviirs EXCEPT
                  !.pc = "geo", !.step = 1, !.bands = <<>>,
                  !.output_filenames =
                      @ \o <<m_output_filename(geo_file), i_output_filename(geo_file)>>]
  /\ subprocesses' = <<>>
  /\ UNCHANGED <<files, cviirs_result>>
  /\ CviirsFrame

\* One of the six transfers of the geolocation file.
GeoTransfer(outcome) ==
  /\ cviirs # None
  /\ cviirs.pc = "geo"
  /\ Transfer(geo_file, svm_temp_file, GeoTransfers[cviirs.step], outcome,
              IF cviirs.step < Len(GeoTransfers)
              THEN [cviirs EXCEPT !.step = @ + 1]
              ELSE [cviirs EXCEPT !.pc = "m", !.step = 1, !.bands = <<>>])
  /\ CviirsFrame

\* One iteration of the loop over the M bands.
MBand(outcome) ==
  /\ cviirs # None
  /\ cviirs.pc = "m"
  /\ cviirs.step <= Len(m_bands)
  /\ BandStep(cviirs_call.m_files, m_vars[cviirs.step], m_bands[cviirs.step],
              svm_temp_file, outcome)
  /\ CviirsFrame

\* _run_cviirs(m_output_filename, [svm_temp_file], bands=bands, output_1km=True)
CviirsM(outcome) ==
  /\ cviirs # None
  /\ cviirs.pc = "m"
  /\ cviirs.step > Len(m_bands)
  /\ LET out == m_output_filename(geo_file)
         r == run_cviirs_once(files, out, FALSE, TRUE, outcome) IN
     /\ subprocesses' = Append(subprocesses,
                               cviirs_args(out, <<svm_temp_file>>, cviirs.bands,
                                           FALSE, TRUE))
     /\ IF r.status = "ok"
        THEN /\ files' = r.files
             /\ cviirs' = [cviirs EXCEPT !.pc = "i", !.step = 1, !.bands = <<>>]
             /\ UNCHANGED cviirs_result
        ELSE CviirsRaise(r.status, r.files)
  /\ CviirsFrame

\* One iteration of the loop over the I bands.
IBand(outcome) ==
  /\ cviirs # None
  /\ cviirs.pc = "i"
  /\ cviirs.step <= Len(i_bands)
  /\ BandStep(cviirs_call.i_files, i_vars[cviirs.step], i_bands[cviirs.step],
              svi_temp_file, outcome)
  /\ CviirsFrame

\* _run_cviirs(i_output_filename, [svm_temp_file, svi_temp_file], bands=bands,
\* output_500m=True), after which the try block ends and the finally clause
\* removes the temporary files.
CviirsI(outcome) ==
  /\ cviirs # None
  /\ cviirs.pc = "i"
  /\ cviirs.step > Len(i_bands)
  /\ LET out == i_output_filename(geo_file)
         r == run_cviirs_once(files, out, TRUE, FALSE, outcome) IN
     /\ subprocesses' = Append(subprocesses,
                               cviirs_args(out, <<svm_temp_file, svi_temp_file>>,
                                           cviirs.bands, TRUE, FALSE))
     /\ IF r.status = "ok"
        THEN /\ files' = finally_remove(r.files, keep_intermediate)
             /\ cviirs' = [cviirs EXCEPT !.pc = "for", !.idx = @ + 1]
             /\ UNCHANGED cviirs_result
        ELSE CviirsRaise(r.status, r.files)
  /\ CviirsFrame

\* "return output_filenames"
CviirsReturn ==
  /\ cviirs # None
  /\ cviirs.pc = "for"
  /\ cviirs.idx > Len(cviirs_call.geo_files)
  /\ cviirs' = [cviirs EXCEPT !.pc = "done"]
  /\ cviirs_result' = [status |-> "ok", value |-> cviirs.output_filenames]
  /\ UNCHANGED <<files, subprocesses>>
  /\ CviirsFrame

\* The band arguments: each None or the list of the band's files, one for
\* each geolocation file.
BandArguments(args, geo_files) ==
  {[k \in 1..Len(args) |->
      IF k \in S
      THEN [list |-> [i \in 1..Len(geo_files) |-> BandFile(args[k], geo_files[i])]]
      ELSE None] : S \in SUBSET (1..Len(args))}

\* A caller is about to call run_cviirs in an empty working directory.
CviirsInit ==
  /\ EnsembleInit
  /\ NoCall
  /\ NoDiscovery
  /\ NoDecode
  /\ NoCompare
  /\ PRODUCTS = PRODUCTS_at_import
  /\ recognized_files = <<>>
  /\ scene_pc = "None"
  /\ \E g \in SeqsUpTo(GeoFiles, MaxGranules) :
       \E m \in BandArguments(MArgs, g) : \E i \in BandArguments(IArgs, g) :
         \E k \in BOOLEAN :
           cviirs_call = [geo_files |-> g, m_files |-> m, i_files |-> i,
                          keep_intermediate |-> k]
  /\ files = {}
  /\ cviirs = None
  /\ subprocesses = <<>>
  /\ cviirs_result = None

CviirsNext ==
  \/ RunCviirs
  \/ GranuleStart
  \/ \E outcome \in Outcomes : GeoTransfer(outcome)
  \/ \E outcome \in Outcomes : MBand(outcome)
  \/ \E outcome \in Outcomes : CviirsM(outcome)
  \/ \E outcome \in Outcomes : IBand(outcome)
  \/ \E outcome \in Outcomes : CviirsI(outcome)
  \/ CviirsReturn

CviirsSpec == CviirsInit /\ [][CviirsNext]_vars

\* --------------------------------------------- properties of run_cviirs
\* The processing of a granule has ended: run_cviirs is between two
\* granules, has returned, or has raised.
GranuleEnded == cviirs # None /\ cviirs.pc \in {"for", "done"}
CviirsFailed == cviirs_result # None /\ cviirs_result.status # "ok"

\* The supplied bands of a group of band arguments, in the order of the group.
SuppliedBands(all_files, bands) ==
  LET idxs == SelectSeq([k \in 1..Len(bands) |-> k], LAMBDA k : all_files[k] # None)
  IN  [j \in 1..Len(idxs) |-> bands[idxs[j]]]

\* C24: with keep_intermediate false, when the processing of a granule has
\* ended neither temporary file exists, and when it ended by an exception
\* the exception is raised out of run_cviirs and neither output file of that
\* granule exists.
C24_TemporaryFilesRemoved ==
  (GranuleEnded /\ ~keep_intermediate) =>
    /\ svm_temp_file \notin files
    /\ svi_temp_file \notin files
    /\ CviirsFailed =>
         /\ cviirs.pc = "done"
         /\ m_output_filename(geo_file) \notin files
         /\ i_output_filename(geo_file) \notin files

C24_Witness ==
  /\ CviirsFailed
  /\ cviirs_result.status = ValueErrorFailed
  /\ ~keep_intermediate
  /\ cviirs.idx = 2
  /\ Len(subprocesses) = Len(GeoTransfers) + Len(m_bands) + Len(i_bands) + 2
  /\ files = {m_output_filename(cviirs_call.geo_files[1]),
              i_output_filename(cviirs_call.geo_files[1])}

\* The index of the granule whose programs subprocesses lists: the granule
\* in progress, or the one that has just ended.
LoggedGranule ==
  IF cviirs.pc = "for" \/ (cviirs.pc = "done" /\ ~CviirsFailed)
  THEN cviirs.idx - 1
  ELSE cviirs.idx
LoggedGeoFile == cviirs_call.geo_files[LoggedGranule]

\* The cviirs runs of that granule as they are to be: over the supplied
\* bands of each group, in the order of the group.
ExpectedCviirsM ==
  cviirs_args(m_output_filename(LoggedGeoFile), <<svm_temp_file>>,
              SuppliedBands(cviirs_call.m_files, m_bands), FALSE, TRUE)
ExpectedCviirsI ==
  cviirs_args(i_output_filename(LoggedGeoFile), <<svm_temp_file, svi_temp_file>>,
              SuppliedBands(cviirs_call.i_files, i_bands), TRUE, FALSE)

\* The transfers of the band files among the programs run for the granule.
BandTransfers ==
  SelectSeq(subprocesses,
            LAMBDA a : a[1] = H5SDS_TRANSFER_RENAME_NAME /\ a[4] = "Reflectance")

\* The transfers of the supplied bands of a group for the granule, in order.
ExpectedTransfers(all_files, band_vars, temp_file) ==
  LET idxs == SelectSeq([k \in 1..Len(band_vars) |-> k],
                        LAMBDA k : all_files[k] # None)
  IN  [j \in 1..Len(idxs) |->
        rename_args(all_files[idxs[j]].list[LoggedGranule], temp_file,
                    "Reflectance", band_vars[idxs[j]])]

\* The granule has had its second cviirs run.
BothCviirsRun ==
  Cardinality({k \in DOMAIN subprocesses : subprocesses[k][1] = CVIIRS_NAME}) = 2

\* C25: a band argument of None makes no step of run_cviirs fail; every
\* cviirs run of a granule is given the band numbers of the supplied bands
\* of its group, in order; and when both runs have been made, the band
\* transfers of the granule are those of the supplied bands, in order.
C25_UnsuppliedBandsSkipped ==
  /\ CviirsFailed => cviirs_result.status # TypeErrorNoneSubscript
  /\ \A k \in DOMAIN subprocesses :
       subprocesses[k][1] = CVIIRS_NAME
         => subprocesses[k] \in {ExpectedCviirsM, ExpectedCviirsI}
  /\ BothCviirsRun =>
       BandTransfers =
         ExpectedTransfers(cviirs_call.m_files, m_vars, svm_temp_file)
           \o ExpectedTransfers(cviirs_call.i_files, i_vars, svi_temp_file)

====
